---- MODULE Spec2Model ----
(***************************************************************************)
(* The fake in-memory schema registry (fakeRegistry) and the HTTP server   *)
(* in front of it (fakeServer) of src/pkg/web/ui/handler.go.               *)
(*                                                                         *)
(* Strings are sequences of one-character strings, so that strings.Split   *)
(* and strconv.Atoi are computed on them.  A schema payload is a sequence  *)
(* of bytes.                                                               *)
(*                                                                         *)
(* Three specifications share the store's operators:                      *)
(*   Spec      direct calls of the four fakeRegistry methods, one call an  *)
(*             atomic step (each method body runs under fr.m);             *)
(*   ConcSpec  the same methods run by concurrent goroutines, with the     *)
(*             once-guard, the mutex and the statements of CreateSchema as *)
(*             separate steps;                                             *)
(*   HTTPSpec  requests served by fakeServer.ServeHTTP.                    *)
(***************************************************************************)
EXTENDS Integers, Sequences, FiniteSets, TLC

VARIABLES
    fr,        \* the fakeRegistry: schemas, fingerprintIDCache, idSequence, m, initOnce
    last,      \* Spec: the last direct call and what it returned
    returned,  \* every record a CreateSchema call has returned so far
    req,       \* HTTPSpec: the last request served
    resp,      \* HTTPSpec: the response written for it
    pc,        \* ConcSpec: where each goroutine is
    call       \* ConcSpec: the call of each goroutine, with its locals and result

vars == <<fr, last, returned, req, resp, pc, call>>

(***************************************************************************)
(* Bounds of the model.                                                    *)
(***************************************************************************)
MaxRecords == 3   \* records the store may hold
NThreads == 2     \* goroutines of ConcSpec, one call each

(***************************************************************************)
(* Program constants.                                                      *)
(***************************************************************************)
errorCodeSubjectNotFound == 40401
errorCodeSchemaNotFound == 40403
errorCodeInternal == 50001
StatusOK == 200
StatusMovedPermanently == 301
StatusNotFound == 404
StatusInternalServerError == 500

(***************************************************************************)
(* Inputs.                                                                 *)
(***************************************************************************)
Subjects == {<<"a">>, <<"b">>}
Payloads == {<<0>>, <<1>>, <<0, 1>>}
SchemaTypes == {"AVRO", "JSON"}
Schemas == [Schema : Payloads, Type : SchemaTypes]
IDs == 1..3
Versions == 1..3

\* sr.Schema{} and sr.SubjectSchema{}, the zero values
ZeroSchema == [Schema |-> <<>>, Type |-> "AVRO"]
ZeroSubjectSchema == [Subject |-> <<>>, Version |-> 0, ID |-> 0, Schema |-> ZeroSchema]

(***************************************************************************)
(* internal.Rabin: the 64-bit fingerprint of the schema bytes.  It sees    *)
(* the bytes only (schema.Schema), not the type tag.  Injective on the     *)
(* payloads of the model (bytes 0..2).                                     *)
(***************************************************************************)
RECURSIVE Rabin(_)
Rabin(buf) ==
    IF buf = <<>> THEN 1
    ELSE Rabin(SubSeq(buf, 1, Len(buf) - 1)) * 4 + buf[Len(buf)] + 1

(***************************************************************************)
(* fakeRegistry                                                            *)
(***************************************************************************)
\* a nil map, and make(map[uint64]int)
NilMap == [made |-> FALSE, kv |-> [x \in {} |-> 0]]
MakeMap == [made |-> TRUE, kv |-> [x \in {} |-> 0]]

\* the zero fakeRegistry of a new fakeServer
ZeroRegistry ==
    [schemas |-> <<>>,
     fingerprintIDCache |-> NilMap,
     idSequence |-> 0,
     m |-> 0,
     initOnce |-> [done |-> FALSE, m |-> 0]]

\* the function passed to initOnce.Do, without its lock and unlock
initBody(f) == [f EXCEPT !.schemas = <<>>, !.fingerprintIDCache = MakeMap]

\* fr.init() run to its end by one caller
initAlways(f) == [initBody(f) EXCEPT !.initOnce.done = TRUE]
init(f) ==
    IF f.initOnce.done THEN f ELSE [initBody(f) EXCEPT !.initOnce.done = TRUE]

\* the index of the first record of f.schemas in the set I, 0 if none
First(I) == IF I = {} THEN 0 ELSE CHOOSE i \in I : \A j \in I : i <= j

findBySubject(f, subject) ==
    SelectSeq(f.schemas, LAMBDA ss : ss.Subject = subject)

nextIDStuck(f) == f
nextIDSkipping(f) == [f EXCEPT !.idSequence = @ + 2]
nextID(f) == [f EXCEPT !.idSequence = @ + 1]

nextVersionGlobal(f, subject) == Len(f.schemas) + 1
nextVersionNoIncrement(f, subject) == Len(findBySubject(f, subject))
nextVersion(f, subject) == Len(findBySubject(f, subject)) + 1

findOneByIDLast(f, id) ==
    LET I == {i \in 1..Len(f.schemas) : f.schemas[i].ID = id}
    IN  IF I = {} THEN [s |-> ZeroSchema, ok |-> FALSE]
        ELSE [s |-> f.schemas[CHOOSE i \in I : \A j \in I : j <= i].Schema, ok |-> TRUE]
findOneByID(f, id) ==
    LET i == First({i \in 1..Len(f.schemas) : f.schemas[i].ID = id})
    IN  IF i = 0 THEN [s |-> ZeroSchema, ok |-> FALSE]
        ELSE [s |-> f.schemas[i].Schema, ok |-> TRUE]

findAllByIDOfFirstSubject(f, id) ==
    SelectSeq(f.schemas, LAMBDA ss : ss.ID = id /\ ss.Subject = f.schemas[1].Subject)
findAllByID(f, id) ==
    SelectSeq(f.schemas, LAMBDA ss : ss.ID = id)

findBySubjectIDNever(f, subject, id) == [ss |-> ZeroSubjectSchema, ok |-> FALSE]
findBySubjectID(f, subject, id) ==
    LET i == First({i \in 1..Len(f.schemas) :
                      f.schemas[i].Subject = subject /\ f.schemas[i].ID = id})
    IN  IF i = 0 THEN [ss |-> ZeroSubjectSchema, ok |-> FALSE]
        ELSE [ss |-> f.schemas[i], ok |-> TRUE]

findBySubjectVersionAnySubject(f, subject, version) ==
    LET i == First({i \in 1..Len(f.schemas) : f.schemas[i].Version = version})
    IN  IF i = 0 THEN [ss |-> ZeroSubjectSchema, ok |-> FALSE]
        ELSE [ss |-> f.schemas[i], ok |-> TRUE]
findBySubjectVersion(f, subject, version) ==
    LET i == First({i \in 1..Len(f.schemas) :
                      f.schemas[i].Subject = subject /\ f.schemas[i].Version = version})
    IN  IF i = 0 THEN [ss |-> ZeroSubjectSchema, ok |-> FALSE]
        ELSE [ss |-> f.schemas[i], ok |-> TRUE]

\* id, ok := fr.fingerprintIDCache[fp]
cacheGet(f, fp) ==
    IF fp \in DOMAIN f.fingerprintIDCache.kv
    THEN [id |-> f.fingerprintIDCache.kv[fp], ok |-> TRUE]
    ELSE [id |-> 0, ok |-> FALSE]

\* fr.fingerprintIDCache[fp] = id (an assignment to a nil map panics and writes nothing)
cachePutNothing(f, fp, id) == f
cachePut(f, fp, id) ==
    IF f.fingerprintIDCache.made
    THEN [f EXCEPT !.fingerprintIDCache.kv =
                      [x \in DOMAIN @ \cup {fp} |-> IF x = fp THEN id ELSE @[x]]]
    ELSE f

\* fr.schemas = append(fr.schemas, ss)
appendSchemaInFront(f, ss) == [f EXCEPT !.schemas = <<ss>> \o @]
appendSchema(f, ss) == [f EXCEPT !.schemas = Append(@, ss)]

\* the statements of CreateSchema after the lock is taken: the registry after them
\* and the record returned
CreateSchemaLocked(f, subject, schema) ==
    LET fp == Rabin(schema.Schema)
        c == cacheGet(f, fp)
        found == IF c.ok THEN findBySubjectID(f, subject, c.id)
                 ELSE [ss |-> ZeroSubjectSchema, ok |-> FALSE]
    IN  IF c.ok /\ found.ok
        THEN [fr |-> f, ss |-> found.ss]
        ELSE LET f1 == IF c.ok THEN f ELSE nextID(f)
                 id == IF c.ok THEN c.id ELSE f1.idSequence
                 ss == [Subject |-> subject,
                        Version |-> nextVersion(f1, subject),
                        ID |-> id,
                        Schema |-> schema]
             IN  [fr |-> cachePut(appendSchema(f1, ss), fp, id), ss |-> ss]

CreateSchema(f, subject, schema) == CreateSchemaLocked(init(f), subject, schema)
SchemaByID(f, id) == [fr |-> init(f), r |-> findOneByID(init(f), id)]
SchemaBySubjectVersion(f, subject, version) ==
    [fr |-> init(f), r |-> findBySubjectVersion(init(f), subject, version)]
SubjectVersionsByID(f, id) == [fr |-> init(f), sss |-> findAllByID(init(f), id)]

(***************************************************************************)
(* Spec: direct calls of the store's methods.                              *)
(***************************************************************************)
NoCall ==
    [op |-> "none", subject |-> <<>>, schema |-> ZeroSchema, id |-> 0, version |-> 0,
     ss |-> ZeroSubjectSchema, s |-> ZeroSchema, sss |-> <<>>, ok |-> FALSE,
     recordsBefore |-> 0, overlap |-> FALSE]
NoBody == [kind |-> "empty", schema |-> ZeroSchema]
NoRequest == [method |-> "", path |-> <<>>, body |-> NoBody]
NoResponse == [status |-> 0, kind |-> "none", code |-> 0, body |-> [t |-> "none"]]

Threads == 1..NThreads

Init ==
    /\ fr = ZeroRegistry
    /\ last = NoCall
    /\ returned = {}
    /\ req = NoRequest
    /\ resp = NoResponse
    /\ pc = [t \in Threads |-> "idle"]
    /\ call = [t \in Threads |-> NoCall]

CallCreateSchema ==
    \E subject \in Subjects, schema \in Schemas :
        LET r == CreateSchema(fr, subject, schema)
        IN  /\ Len(r.fr.schemas) <= MaxRecords
            /\ fr' = r.fr
            /\ last' = [NoCall EXCEPT !.op = "CreateSchema", !.subject = subject,
                                      !.schema = schema, !.ss = r.ss, !.ok = TRUE,
                                      !.recordsBefore = Len(fr.schemas)]
            /\ returned' = returned \cup {r.ss}
            /\ UNCHANGED <<req, resp, pc, call>>

CallSchemaByID ==
    \E id \in IDs :
        LET r == SchemaByID(fr, id)
        IN  /\ fr' = r.fr
            /\ last' = [NoCall EXCEPT !.op = "SchemaByID", !.id = id,
                                      !.s = r.r.s, !.ok = r.r.ok,
                                      !.recordsBefore = Len(fr.schemas)]
            /\ UNCHANGED <<returned, req, resp, pc, call>>

CallSchemaBySubjectVersion ==
    \E subject \in Subjects, version \in Versions :
        LET r == SchemaBySubjectVersion(fr, subject, version)
        IN  /\ fr' = r.fr
            /\ last' = [NoCall EXCEPT !.op = "SchemaBySubjectVersion",
                                      !.subject = subject, !.version = version,
                                      !.ss = r.r.ss, !.ok = r.r.ok,
                                      !.recordsBefore = Len(fr.schemas)]
            /\ UNCHANGED <<returned, req, resp, pc, call>>

CallSubjectVersionsByID ==
    \E id \in IDs :
        LET r == SubjectVersionsByID(fr, id)
        IN  /\ fr' = r.fr
            /\ last' = [NoCall EXCEPT !.op = "SubjectVersionsByID", !.id = id,
                                      !.sss = r.sss, !.ok = TRUE,
                                      !.recordsBefore = Len(fr.schemas)]
            /\ UNCHANGED <<returned, req, resp, pc, call>>

Next ==
    \/ CallCreateSchema
    \/ CallSchemaByID
    \/ CallSchemaBySubjectVersion
    \/ CallSubjectVersionsByID

Spec == Init /\ [][Next]_vars

(***************************************************************************)
(* ConcSpec: goroutines calling the store's methods concurrently, one call *)
(* each (a request is served on a goroutine of its own).  A call           *)
(* runs fr.init() (sync.Once.Do: the fast path, else the once's own mutex,  *)
(* the check and the function, which takes fr.m), then fr.m.Lock(), the    *)
(* statements of the method, and the deferred fr.m.Unlock().               *)
(***************************************************************************)
ConcSchemas == [Schema : Payloads, Type : {"AVRO"}]
ConcIDs == {1, 2}
ConcVersions == {1}

\* sync.Mutex.Lock returns once the mutex is free
canLockAlways(mu) == TRUE
canLock(mu) == mu = 0

Start(t) ==
    /\ pc[t] = "idle"
    /\ \E c \in
          {[NoCall EXCEPT !.op = "CreateSchema", !.subject = subject, !.schema = schema] :
              subject \in Subjects, schema \in ConcSchemas}
          \cup {[NoCall EXCEPT !.op = "SchemaByID", !.id = id] : id \in ConcIDs}
          \cup {[NoCall EXCEPT !.op = "SchemaBySubjectVersion", !.subject = subject,
                               !.version = version] :
                   subject \in Subjects, version \in ConcVersions}
          \cup {[NoCall EXCEPT !.op = "SubjectVersionsByID", !.id = id] : id \in ConcIDs} :
          call' = [call EXCEPT ![t] =
                     [c EXCEPT !.overlap = \E u \in Threads : pc[u] \notin {"idle", "done"}]]
    /\ pc' = [pc EXCEPT ![t] = "init"]
    /\ UNCHANGED <<fr, last, returned, req, resp>>

\* initOnce.Do, fast path: done is already set
OnceFast(t) ==
    /\ pc[t] = "init"
    /\ fr.initOnce.done
    /\ pc' = [pc EXCEPT ![t] = "lock"]
    /\ UNCHANGED <<fr, last, returned, req, resp, call>>

\* initOnce.Do, slow path: done was read unset
OnceSlow(t) ==
    /\ pc[t] = "init"
    /\ ~fr.initOnce.done
    /\ pc' = [pc EXCEPT ![t] = "onceLock"]
    /\ UNCHANGED <<fr, last, returned, req, resp, call>>

\* doSlow: o.m.Lock()
OnceLock(t) ==
    /\ pc[t] = "onceLock"
    /\ canLock(fr.initOnce.m)
    /\ fr' = [fr EXCEPT !.initOnce.m = t]
    /\ pc' = [pc EXCEPT ![t] = "onceCheck"]
    /\ UNCHANGED <<last, returned, req, resp, call>>

\* doSlow: if o.done is set by now, unlock and return
OnceSkip(t) ==
    /\ pc[t] = "onceCheck"
    /\ fr.initOnce.done
    /\ fr' = [fr EXCEPT !.initOnce.m = 0]
    /\ pc' = [pc EXCEPT ![t] = "lock"]
    /\ UNCHANGED <<last, returned, req, resp, call>>

\* doSlow: o.done is unset, so run the function; it starts with fr.m.Lock()
InitLockUnchecked(t) ==
    /\ pc[t] = "onceCheck"
    /\ canLock(fr.m)
    /\ fr' = [fr EXCEPT !.m = t]
    /\ pc' = [pc EXCEPT ![t] = "initBody"]
    /\ UNCHANGED <<last, returned, req, resp, call>>
InitLock(t) ==
    /\ pc[t] = "onceCheck"
    /\ ~fr.initOnce.done
    /\ canLock(fr.m)
    /\ fr' = [fr EXCEPT !.m = t]
    /\ pc' = [pc EXCEPT ![t] = "initBody"]
    /\ UNCHANGED <<last, returned, req, resp, call>>

\* the two make calls
InitBody(t) ==
    /\ pc[t] = "initBody"
    /\ fr' = initBody(fr)
    /\ pc' = [pc EXCEPT ![t] = "initUnlock"]
    /\ UNCHANGED <<last, returned, req, resp, call>>

\* the deferred fr.m.Unlock() of the function, then doSlow's deferred
\* o.done.Store(1) and o.m.Unlock()
InitUnlockKeepingLock(t) ==
    /\ pc[t] = "initUnlock"
    /\ fr' = [fr EXCEPT !.initOnce.done = TRUE, !.initOnce.m = 0]
    /\ pc' = [pc EXCEPT ![t] = "lock"]
    /\ UNCHANGED <<last, returned, req, resp, call>>
InitUnlock(t) ==
    /\ pc[t] = "initUnlock"
    /\ fr' = [fr EXCEPT !.m = 0, !.initOnce.done = TRUE, !.initOnce.m = 0]
    /\ pc' = [pc EXCEPT ![t] = "lock"]
    /\ UNCHANGED <<last, returned, req, resp, call>>

\* fr.m.Lock() of the method
LockNoWait(t) ==
    /\ pc[t] = "lock"
    /\ fr' = [fr EXCEPT !.m = t]
    /\ pc' = [pc EXCEPT ![t] = "body"]
    /\ UNCHANGED <<last, returned, req, resp, call>>
Lock(t) ==
    /\ pc[t] = "lock"
    /\ canLock(fr.m)
    /\ fr' = [fr EXCEPT !.m = t]
    /\ pc' = [pc EXCEPT ![t] = "body"]
    /\ UNCHANGED <<last, returned, req, resp, call>>

\* CreateSchema: the fingerprint, the cache lookup, the search for the subject's
\* record, and nextID when the fingerprint is new
CreateLookup(t) ==
    /\ pc[t] = "body"
    /\ call[t].op = "CreateSchema"
    /\ LET c == cacheGet(fr, Rabin(call[t].schema.Schema))
           found == IF c.ok THEN findBySubjectID(fr, call[t].subject, c.id)
                    ELSE [ss |-> ZeroSubjectSchema, ok |-> FALSE]
       IN  IF c.ok /\ found.ok
           THEN /\ call' = [call EXCEPT ![t].ss = found.ss, ![t].ok = TRUE]
                /\ pc' = [pc EXCEPT ![t] = "unlock"]
                /\ fr' = fr
           ELSE /\ fr' = IF c.ok THEN fr ELSE nextID(fr)
                /\ call' = [call EXCEPT ![t].id = IF c.ok THEN c.id ELSE fr'.idSequence]
                /\ pc' = [pc EXCEPT ![t] = "version"]
    /\ UNCHANGED <<last, returned, req, resp>>

\* version := fr.nextVersion(subject)
CreateVersion(t) ==
    /\ pc[t] = "version"
    /\ call' = [call EXCEPT ![t].version = nextVersion(fr, call[t].subject)]
    /\ pc' = [pc EXCEPT ![t] = "append"]
    /\ UNCHANGED <<fr, last, returned, req, resp>>

\* fr.schemas = append(fr.schemas, ss)
CreateAppend(t) ==
    /\ pc[t] = "append"
    /\ LET ss == [Subject |-> call[t].subject, Version |-> call[t].version,
                  ID |-> call[t].id, Schema |-> call[t].schema]
       IN  /\ fr' = appendSchema(fr, ss)
           /\ call' = [call EXCEPT ![t].ss = ss]
    /\ pc' = [pc EXCEPT ![t] = "cache"]
    /\ UNCHANGED <<last, returned, req, resp>>

\* fr.fingerprintIDCache[fp] = id
CreateCache(t) ==
    /\ pc[t] = "cache"
    /\ fr' = cachePut(fr, Rabin(call[t].schema.Schema), call[t].id)
    /\ call' = [call EXCEPT ![t].ok = TRUE]
    /\ pc' = [pc EXCEPT ![t] = "unlock"]
    /\ UNCHANGED <<last, returned, req, resp>>

\* the statement of a lookup method
LookupBody(t) ==
    /\ pc[t] = "body"
    /\ call[t].op \in {"SchemaByID", "SchemaBySubjectVersion", "SubjectVersionsByID"}
    /\ call' = [call EXCEPT ![t] =
                 CASE @.op = "SchemaByID" ->
                        [@ EXCEPT !.s = findOneByID(fr, call[t].id).s,
                                  !.ok = findOneByID(fr, call[t].id).ok]
                   [] @.op = "SchemaBySubjectVersion" ->
                        [@ EXCEPT !.ss = findBySubjectVersion(fr, call[t].subject,
                                                              call[t].version).ss,
                                  !.ok = findBySubjectVersion(fr, call[t].subject,
                                                              call[t].version).ok]
                   [] OTHER ->
                        [@ EXCEPT !.sss = findAllByID(fr, call[t].id), !.ok = TRUE]]
    /\ pc' = [pc EXCEPT ![t] = "unlock"]
    /\ UNCHANGED <<fr, last, returned, req, resp>>

\* the deferred fr.m.Unlock(), and the return
Unlock(t) ==
    /\ pc[t] = "unlock"
    /\ fr' = [fr EXCEPT !.m = 0]
    /\ returned' = IF call[t].op = "CreateSchema" THEN returned \cup {call[t].ss}
                   ELSE returned
    /\ pc' = [pc EXCEPT ![t] = "done"]
    /\ UNCHANGED <<last, req, resp, call>>

ConcNext ==
    \E t \in Threads :
        \/ Start(t)
        \/ OnceFast(t)
        \/ OnceSlow(t)
        \/ OnceLock(t)
        \/ OnceSkip(t)
        \/ InitLock(t)
        \/ InitBody(t)
        \/ InitUnlock(t)
        \/ Lock(t)
        \/ CreateLookup(t)
        \/ CreateVersion(t)
        \/ CreateAppend(t)
        \/ CreateCache(t)
        \/ LookupBody(t)
        \/ Unlock(t)

ConcSpec == Init /\ [][ConcNext]_vars

\* a step of a call that has started
Step(t) ==
    \/ OnceFast(t) \/ OnceSlow(t) \/ OnceLock(t) \/ OnceSkip(t)
    \/ InitLock(t) \/ InitBody(t) \/ InitUnlock(t)
    \/ Lock(t)
    \/ CreateLookup(t) \/ CreateVersion(t) \/ CreateAppend(t) \/ CreateCache(t)
    \/ LookupBody(t)
    \/ Unlock(t)

\* the calls of FairConcSpec: registrations of two contents, and one lookup of
\* each kind
FairCalls ==
    {[NoCall EXCEPT !.op = "CreateSchema", !.subject = <<"a">>,
                    !.schema = [Schema |-> payload, Type |-> "AVRO"]] :
        payload \in {<<0>>, <<1>>}}
    \cup {[NoCall EXCEPT !.op = "SchemaByID", !.id = 1],
          [NoCall EXCEPT !.op = "SchemaBySubjectVersion", !.subject = <<"a">>,
                         !.version = 1],
          [NoCall EXCEPT !.op = "SubjectVersionsByID", !.id = 1]}

StartFair(t) ==
    /\ pc[t] = "idle"
    /\ \E c \in FairCalls :
          call' = [call EXCEPT ![t] =
                     [c EXCEPT !.overlap = \E u \in Threads : pc[u] \notin {"idle", "done"}]]
    /\ pc' = [pc EXCEPT ![t] = "init"]
    /\ UNCHANGED <<fr, last, returned, req, resp>>

FairNext == \E t \in Threads : StartFair(t) \/ Step(t)

\* concurrent calls under the scheduler's fairness: a goroutine that can take a
\* step is eventually run (a goroutine waiting for a mutex is woken when it is
\* unlocked); whether a call is made at all is left open
FairConcSpec == Init /\ [][FairNext]_vars /\ \A t \in Threads : WF_vars(Step(t))

(***************************************************************************)
(* fakeServer.  A request is a method, a path (r.URL.EscapedPath(), which  *)
(* for the paths of the model is r.URL.Path too) and a body.               *)
(***************************************************************************)
wSubjects == <<"s", "u", "b", "j", "e", "c", "t", "s">>
wVersions == <<"v", "e", "r", "s", "i", "o", "n", "s">>
wSchemas == <<"s", "c", "h", "e", "m", "a", "s">>
wIds == <<"i", "d", "s">>
wOther == <<"o">>

\* "/" + t1 + "/" + t2 + ...
RECURSIVE JoinPath(_)
JoinPath(toks) ==
    IF toks = <<>> THEN <<>> ELSE <<"/">> \o Head(toks) \o JoinPath(Tail(toks))

\* strings.Split(s, "/")
RECURSIVE Split(_)
Split(s) ==
    LET i == First({k \in 1..Len(s) : s[k] = "/"})
    IN  IF i = 0 THEN <<s>>
        ELSE <<SubSeq(s, 1, i - 1)>> \o Split(SubSeq(s, i + 1, Len(s)))

\* strings.HasPrefix
HasPrefix(s, prefix) ==
    Len(s) >= Len(prefix) /\ SubSeq(s, 1, Len(prefix)) = prefix

DigitValue ==
    [c \in {"0", "1", "2", "3", "4", "5", "6", "7", "8", "9"} |->
        CASE c = "0" -> 0 [] c = "1" -> 1 [] c = "2" -> 2 [] c = "3" -> 3 [] c = "4" -> 4
          [] c = "5" -> 5 [] c = "6" -> 6 [] c = "7" -> 7 [] c = "8" -> 8 [] c = "9" -> 9]

RECURSIVE DecimalValue(_)
DecimalValue(ds) ==
    IF ds = <<>> THEN 0
    ELSE DecimalValue(SubSeq(ds, 1, Len(ds) - 1)) * 10 + DigitValue[ds[Len(ds)]]

\* strconv.Atoi: an optional sign and one or more decimal digits (the tokens of the
\* model are too short to leave the range of int)
AtoiLenient(s) ==
    LET ds == SelectSeq(s, LAMBDA c : c \in DOMAIN DigitValue)
    IN  [n |-> DecimalValue(ds), err |-> FALSE]
Atoi(s) ==
    LET signed == s # <<>> /\ s[1] \in {"+", "-"}
        ds == IF signed THEN Tail(s) ELSE s
    IN  IF ds = <<>> \/ \E k \in 1..Len(ds) : ds[k] \notin DOMAIN DigitValue
        THEN [n |-> 0, err |-> TRUE]
        ELSE [n |-> IF signed /\ s[1] = "-" THEN 0 - DecimalValue(ds) ELSE DecimalValue(ds),
              err |-> FALSE]

\* json.NewDecoder(r.Body).Decode(&s) into an sr.Schema: only a JSON object decodes
\* (an empty body is io.EOF, an array or a non-JSON text is an error)
Decode(body) ==
    IF body.kind = "object" THEN [s |-> body.schema, err |-> FALSE]
    ELSE [s |-> ZeroSchema, err |-> TRUE]

\* json.Marshal of the values the handlers write.  A nil slice is null; the slices
\* of findAllByID are nil exactly when they are empty.
MarshalID(ss) == [t |-> "object", v |-> [id |-> ss.ID]]
MarshalSchema(sch) ==
    [t |-> "object", v |-> [schema |-> sch.Schema, schemaType |-> sch.Type]]
MarshalSubjectSchema(ss) ==
    [t |-> "object",
     v |-> [subject |-> ss.Subject, version |-> ss.Version, id |-> ss.ID,
            schema |-> ss.Schema.Schema, schemaType |-> ss.Schema.Type]]
MarshalSubjectSchemas(sss) ==
    IF sss = <<>> THEN [t |-> "null"]
    ELSE [t |-> "array", v |-> [k \in 1..Len(sss) |-> MarshalSubjectSchema(sss[k]).v]]

\* http.NotFound, and the mux's own NotFoundHandler: 404, text/plain, "404 page not found"
httpNotFound ==
    [status |-> StatusNotFound, kind |-> "text", code |-> 0, body |-> [t |-> "none"]]
\* http.RedirectHandler(url, http.StatusMovedPermanently)
httpRedirect ==
    [status |-> StatusMovedPermanently, kind |-> "redirect", code |-> 0,
     body |-> [t |-> "none"]]

\* fs.errorWithCode, fs.error and fs.json (json.Marshal of these values cannot fail)
errorWithCode(status, code) ==
    [status |-> status, kind |-> "error", code |-> code, body |-> [t |-> "none"]]
error(status) == errorWithCode(status, errorCodeInternal)
json(b) == [status |-> StatusOK, kind |-> "json", code |-> 0, body |-> b]

\* net/http's cleanPath on a path that starts with "/" and has no "." or ".."
\* element: repeated slashes collapse, a trailing slash is kept
cleanPath(p) ==
    LET toks == SelectSeq(Split(p), LAMBDA x : x # <<>>)
    IN  IF toks = <<>> THEN <<"/">>
        ELSE JoinPath(toks) \o (IF p[Len(p)] = "/" THEN <<"/">> ELSE <<>>)

patSchemasIDs == JoinPath(<<wSchemas, wIds, <<>>>>)
patSubjects == JoinPath(<<wSubjects, <<>>>>)

\* fs.mux.ServeHTTP with the two patterns and the closures registered by
\* newFakeServer: the handler the request reaches.  http.ServeMux answers a path
\* that is not clean, and a pattern's path without its trailing slash, with a 301
\* redirect; a path under no pattern with its NotFoundHandler.
route(r) ==
    LET tokens == Split(r.path)
    IN  IF cleanPath(r.path) # r.path \/ r.path \o <<"/">> \in {patSchemasIDs, patSubjects}
        THEN "redirect"
        ELSE IF HasPrefix(r.path, patSchemasIDs)
        THEN IF Len(tokens) = 4 THEN "schemaByID"
             ELSE IF Len(tokens) = 5 /\ tokens[5] = wVersions THEN "subjectVersionsByID"
             ELSE "notFound"
        ELSE IF HasPrefix(r.path, patSubjects)
        THEN IF Len(tokens) = 4 /\ tokens[4] = wVersions THEN "createSchema"
             ELSE IF Len(tokens) = 5 /\ tokens[4] = wVersions THEN "schemaBySubjectVersion"
             ELSE "notFound"
        ELSE "notFound"

\* what a handler leaves: the registry, the response, and the store call it made
Unserved(f, response) == [fr |-> f, resp |-> response, call |-> NoCall]

createSchemaAnyMethod(f, r) ==
    IF Decode(r.body).err THEN Unserved(f, error(StatusInternalServerError))
    ELSE LET subject == Split(r.path)[3]
             c == CreateSchema(f, subject, Decode(r.body).s)
         IN  [fr |-> c.fr,
              resp |-> json(MarshalID(c.ss)),
              call |-> [NoCall EXCEPT !.op = "CreateSchema", !.subject = subject,
                                      !.schema = Decode(r.body).s, !.ss = c.ss,
                                      !.ok = TRUE, !.recordsBefore = Len(f.schemas)]]
createSchema(f, r) ==
    IF r.method # "POST" THEN Unserved(f, httpNotFound)
    ELSE IF Decode(r.body).err THEN Unserved(f, error(StatusInternalServerError))
    ELSE LET subject == Split(r.path)[3]
             c == CreateSchema(f, subject, Decode(r.body).s)
         IN  [fr |-> c.fr,
              resp |-> json(MarshalID(c.ss)),
              call |-> [NoCall EXCEPT !.op = "CreateSchema", !.subject = subject,
                                      !.schema = Decode(r.body).s, !.ss = c.ss,
                                      !.ok = TRUE, !.recordsBefore = Len(f.schemas)]]

schemaBySubjectVersionSwappedCode(f, r) ==
    IF r.method # "GET" THEN Unserved(f, httpNotFound)
    ELSE IF Atoi(Split(r.path)[5]).err THEN Unserved(f, error(StatusInternalServerError))
    ELSE LET subject == Split(r.path)[3]
             version == Atoi(Split(r.path)[5]).n
             c == SchemaBySubjectVersion(f, subject, version)
         IN  [fr |-> c.fr,
              resp |-> IF ~c.r.ok
                       THEN errorWithCode(StatusNotFound, errorCodeSchemaNotFound)
                       ELSE json(MarshalSubjectSchema(c.r.ss)),
              call |-> [NoCall EXCEPT !.op = "SchemaBySubjectVersion",
                                      !.subject = subject, !.version = version,
                                      !.ss = c.r.ss, !.ok = c.r.ok,
                                      !.recordsBefore = Len(f.schemas)]]
schemaBySubjectVersion(f, r) ==
    IF r.method # "GET" THEN Unserved(f, httpNotFound)
    ELSE IF Atoi(Split(r.path)[5]).err THEN Unserved(f, error(StatusInternalServerError))
    ELSE LET subject == Split(r.path)[3]
             version == Atoi(Split(r.path)[5]).n
             c == SchemaBySubjectVersion(f, subject, version)
         IN  [fr |-> c.fr,
              resp |-> IF ~c.r.ok
                       THEN errorWithCode(StatusNotFound, errorCodeSubjectNotFound)
                       ELSE json(MarshalSubjectSchema(c.r.ss)),
              call |-> [NoCall EXCEPT !.op = "SchemaBySubjectVersion",
                                      !.subject = subject, !.version = version,
                                      !.ss = c.r.ss, !.ok = c.r.ok,
                                      !.recordsBefore = Len(f.schemas)]]

schemaByID(f, r) ==
    IF r.method # "GET" THEN Unserved(f, httpNotFound)
    ELSE IF Atoi(Split(r.path)[4]).err THEN Unserved(f, error(StatusInternalServerError))
    ELSE LET id == Atoi(Split(r.path)[4]).n
             c == SchemaByID(f, id)
         IN  [fr |-> c.fr,
              resp |-> IF ~c.r.ok
                       THEN errorWithCode(StatusNotFound, errorCodeSchemaNotFound)
                       ELSE json(MarshalSchema(c.r.s)),
              call |-> [NoCall EXCEPT !.op = "SchemaByID", !.id = id, !.s = c.r.s,
                                      !.ok = c.r.ok, !.recordsBefore = Len(f.schemas)]]

subjectVersionsByID(f, r) ==
    IF r.method # "GET" THEN Unserved(f, httpNotFound)
    ELSE IF Atoi(Split(r.path)[4]).err THEN Unserved(f, error(StatusInternalServerError))
    ELSE LET id == Atoi(Split(r.path)[4]).n
             c == SubjectVersionsByID(f, id)
         IN  [fr |-> c.fr,
              resp |-> json(MarshalSubjectSchemas(c.sss)),
              call |-> [NoCall EXCEPT !.op = "SubjectVersionsByID", !.id = id,
                                      !.sss = c.sss, !.ok = TRUE,
                                      !.recordsBefore = Len(f.schemas)]]

(***************************************************************************)
(* HTTPSpec: requests served one after the other.                          *)
(***************************************************************************)
Methods == {"GET", "POST", "PUT"}
NumberTokens == {<<"1">>, <<"2">>, <<"-", "1">>, <<"x">>, <<>>}
Bodies ==
    {[kind |-> "object", schema |-> [Schema |-> <<0>>, Type |-> "AVRO"]],
     [kind |-> "object", schema |-> [Schema |-> <<1>>, Type |-> "AVRO"]],
     [kind |-> "text", schema |-> ZeroSchema],
     NoBody}
Paths ==
    {JoinPath(<<wSubjects, sub, wVersions>>) : sub \in Subjects \cup {<<>>}}
    \cup {JoinPath(<<wSubjects, sub, wVersions, n>>) : sub \in Subjects, n \in NumberTokens}
    \cup {JoinPath(<<wSubjects, <<>>, wVersions, n>>) : n \in {<<"1">>, <<"x">>}}
    \cup {JoinPath(<<wSchemas, wIds, n>>) : n \in NumberTokens}
    \cup {JoinPath(<<wSchemas, wIds, n, wVersions>>) : n \in NumberTokens}
    \cup {JoinPath(toks) : toks \in
            {<< <<>> >>, <<wOther>>, <<wSubjects>>, <<wSubjects, <<>>>>,
             <<wSubjects, <<"a">>>>,
             <<wSubjects, <<"a">>, wOther, <<"1">>>>,
             <<wSubjects, <<"a">>, wVersions, <<"1">>, wOther>>,
             <<wSchemas, <<>>>>, <<wSchemas, wIds>>,
             <<wSchemas, wIds, <<"1">>, wOther>>,
             <<wSchemas, wIds, <<"1">>, wVersions, wOther>>}}
Requests ==
    [method : {"POST"}, path : Paths, body : Bodies]
    \cup [method : Methods \ {"POST"}, path : Paths, body : {NoBody}]

\* the requests that reach each handler
Routed ==
    [h \in {"createSchema", "schemaBySubjectVersion", "schemaByID",
            "subjectVersionsByID", "notFound", "redirect"} |->
        {r \in Requests : route(r) = h}]

\* fakeServer.ServeHTTP on a request whose handler leaves h
Serve(r, h) ==
    /\ Len(h.fr.schemas) <= MaxRecords
    /\ fr' = h.fr
    /\ req' = r
    /\ resp' = h.resp
    /\ last' = h.call
    /\ returned' = IF h.call.op = "CreateSchema" THEN returned \cup {h.call.ss}
                   ELSE returned
    /\ UNCHANGED <<pc, call>>

ServeCreateSchema ==
    \E r \in Routed["createSchema"] : Serve(r, createSchema(fr, r))

ServeSchemaBySubjectVersion ==
    \E r \in Routed["schemaBySubjectVersion"] : Serve(r, schemaBySubjectVersion(fr, r))

ServeSchemaByID ==
    \E r \in Routed["schemaByID"] : Serve(r, schemaByID(fr, r))

ServeSubjectVersionsByID ==
    \E r \in Routed["subjectVersionsByID"] : Serve(r, subjectVersionsByID(fr, r))

ServeNotFound ==
    \E r \in Routed["notFound"] : Serve(r, Unserved(fr, httpNotFound))

ServeRedirect ==
    \E r \in Routed["redirect"] : Serve(r, Unserved(fr, httpRedirect))

HTTPNext ==
    \/ ServeCreateSchema
    \/ ServeSchemaBySubjectVersion
    \/ ServeSchemaByID
    \/ ServeSubjectVersionsByID
    \/ ServeNotFound
    \/ ServeRedirect

HTTPSpec == Init /\ [][HTTPNext]_vars

(***************************************************************************)
(* Properties of the store under direct calls (Spec).                      *)
(***************************************************************************)
\* the positions of the records of l that satisfy subject and payload
Holding(l, subject, payload) ==
    {i \in 1..Len(l) : l[i].Subject = subject /\ l[i].Schema.Schema = payload}
\* the records of l of one subject, in insertion order
OfSubject(l, subject) == SelectSeq(l, LAMBDA ss : ss.Subject = subject)
\* the ids the records of l carry
IDsOf(l) == {l[i].ID : i \in 1..Len(l)}
Lookups == {"SchemaByID", "SchemaBySubjectVersion", "SubjectVersionsByID"}

\* C1: a CreateSchema call for a subject that already holds a record of the same
\* content returns that record (the one the earlier call returned: same id, same
\* version) and leaves the record list, hence the subject's record count, unchanged.
C1_IdempotentReRegistration ==
    [][last'.op = "CreateSchema" =>
         \A i \in Holding(fr.schemas, last'.subject, last'.schema.Schema) :
             /\ last'.ss.ID = fr.schemas[i].ID
             /\ last'.ss.Version = fr.schemas[i].Version
             /\ last'.ss \in returned
             /\ fr'.schemas = fr.schemas
             /\ Len(OfSubject(fr'.schemas, last'.subject))
                  = Len(OfSubject(fr.schemas, last'.subject))]_vars

\* C1 witness: a CreateSchema call has returned a record that was already stored,
\* and the list has not grown.
C1_Witness ==
    /\ last.op = "CreateSchema"
    /\ last.recordsBefore = Len(fr.schemas)
    /\ Len(fr.schemas) >= 2
    /\ \E i \in 1..Len(fr.schemas) : fr.schemas[i] = last.ss

\* C2: registering under subject B content that another subject A holds and B does
\* not gives the new record A's id and the next version of B's own sequence
\* (1 when B had no record).
C2_CrossSubjectIDReuse ==
    [][(/\ last'.op = "CreateSchema"
        /\ Holding(fr.schemas, last'.subject, last'.schema.Schema) = {}) =>
         \A i \in 1..Len(fr.schemas) :
             (/\ fr.schemas[i].Subject # last'.subject
              /\ fr.schemas[i].Schema.Schema = last'.schema.Schema) =>
                 /\ last'.ss.ID = fr.schemas[i].ID
                 /\ last'.ss.Subject = last'.subject
                 /\ last'.ss.Version = Len(OfSubject(fr.schemas, last'.subject)) + 1
                 /\ (OfSubject(fr.schemas, last'.subject) = <<>> => last'.ss.Version = 1)
                 /\ fr'.schemas = Append(fr.schemas, last'.ss)]_vars

\* C2 witness: subject A holds two records, and B's first record reuses the id of
\* A's second record with version 1.
C2_Witness ==
    /\ last.op = "CreateSchema"
    /\ Len(fr.schemas) = 3
    /\ last.recordsBefore = 2
    /\ fr.schemas[3] = last.ss
    /\ fr.schemas[1].Subject = fr.schemas[2].Subject
    /\ fr.schemas[2].Subject # last.subject
    /\ fr.schemas[2].Version = 2
    /\ fr.schemas[2].ID = last.ss.ID
    /\ last.ss.Version = 1

\* C3: for every subject, the versions of its records in insertion order are
\* 1, 2, ..., N.
C3_VersionMonotonicity ==
    \A subject \in Subjects :
        \A k \in 1..Len(OfSubject(fr.schemas, subject)) :
            OfSubject(fr.schemas, subject)[k].Version = k

\* C3 witness: a subject holds two records with a record of another subject
\* registered between them.
C3_Witness ==
    /\ Len(fr.schemas) = 3
    /\ fr.schemas[1].Subject = fr.schemas[3].Subject
    /\ fr.schemas[2].Subject # fr.schemas[1].Subject
    /\ fr.schemas[3].Version = 2

\* C4: two records share an id exactly when their contents share a fingerprint;
\* a registration of an unknown fingerprint gets an id no record carried; the id
\* cached for a fingerprint never changes.
C4_IDsFollowFingerprints ==
    \A i, j \in 1..Len(fr.schemas) :
        (fr.schemas[i].ID = fr.schemas[j].ID)
            <=> (Rabin(fr.schemas[i].Schema.Schema) = Rabin(fr.schemas[j].Schema.Schema))
C4_FreshIDForNewFingerprint ==
    (/\ last'.op = "CreateSchema"
     /\ \A i \in 1..Len(fr.schemas) :
           Rabin(fr.schemas[i].Schema.Schema) # Rabin(last'.schema.Schema))
        => last'.ss.ID \notin IDsOf(fr.schemas)
C4_CachedIDStable ==
    \A fp \in DOMAIN fr.fingerprintIDCache.kv :
        /\ fp \in DOMAIN fr'.fingerprintIDCache.kv
        /\ fr'.fingerprintIDCache.kv[fp] = fr.fingerprintIDCache.kv[fp]
C4_IDUniqueness ==
    /\ []C4_IDsFollowFingerprints
    /\ [][C4_FreshIDForNewFingerprint /\ C4_CachedIDStable]_vars

\* C4 witness: three records, two of them of the same content under different
\* subjects (one id) and one of other content (another id).
C4_Witness ==
    /\ Len(fr.schemas) = 3
    /\ Cardinality(IDsOf(fr.schemas)) = 2
    /\ Cardinality({fr.schemas[i].Schema.Schema : i \in 1..3}) = 2
    /\ Cardinality(DOMAIN fr.fingerprintIDCache.kv) = 2

\* C6 as stated: every returned record is found again by subject and version, and
\* the schema found by its id equals the record's schema.
C6_Original ==
    \A r \in returned :
        /\ SchemaBySubjectVersion(fr, r.Subject, r.Version).r = [ss |-> r, ok |-> TRUE]
        /\ SchemaByID(fr, r.ID).r = [s |-> r.Schema, ok |-> TRUE]

\* C6 amended: every returned record is found again by subject and version, and
\* the schema found by its id has the same content bytes as the record's schema
\* (the type tag is that of the first record registered with the id).
C6_LookupRoundTrip ==
    \A r \in returned :
        /\ SchemaBySubjectVersion(fr, r.Subject, r.Version).r = [ss |-> r, ok |-> TRUE]
        /\ SchemaByID(fr, r.ID).r.ok
        /\ SchemaByID(fr, r.ID).r.s.Schema = r.Schema.Schema

\* C6 witness: a SchemaByID call has found the schema of an id that two returned
\* records carry.
C6_Witness ==
    /\ last.op = "SchemaByID"
    /\ last.ok
    /\ \E r1, r2 \in returned :
          r1 # r2 /\ r1.ID = last.id /\ r2.ID = last.id
                  /\ last.s.Schema = r2.Schema.Schema

\* C7: a lookup of a (subject, version) or of an id that no record has reports
\* ok = false, and no lookup changes the records, the cached ids or the id counter.
C7_LookupsReadOnly ==
    [][last'.op \in Lookups =>
         /\ fr'.schemas = fr.schemas
         /\ fr'.fingerprintIDCache.kv = fr.fingerprintIDCache.kv
         /\ fr'.idSequence = fr.idSequence
         /\ ((/\ last'.op = "SchemaBySubjectVersion"
               /\ \A i \in 1..Len(fr.schemas) :
                     ~(fr.schemas[i].Subject = last'.subject
                         /\ fr.schemas[i].Version = last'.version))
             => ~last'.ok)
         /\ ((last'.op = "SchemaByID" /\ last'.id \notin IDsOf(fr.schemas))
             => ~last'.ok)]_vars

\* C7 witness: a lookup by id has reported absence on a store that holds records,
\* which are still there.
C7_Witness ==
    /\ last.op = "SchemaByID"
    /\ ~last.ok
    /\ last.recordsBefore = 2
    /\ Len(fr.schemas) = 2

(***************************************************************************)
(* Properties of the server (HTTPSpec).                                    *)
(***************************************************************************)
\* which of the four operations' path shapes a path has, by its segments.  A
\* {subject}, and an {id} that is followed by /versions, is a segment that is not
\* empty; the last segment of a path may be empty.
Shape(path) ==
    LET t == Split(path)
    IN  CASE Len(t) = 4 /\ t[2] = wSubjects /\ t[3] # <<>> /\ t[4] = wVersions
               -> "createSchema"
          [] Len(t) = 5 /\ t[2] = wSubjects /\ t[3] # <<>> /\ t[4] = wVersions
               -> "schemaBySubjectVersion"
          [] Len(t) = 4 /\ t[2] = wSchemas /\ t[3] = wIds -> "schemaByID"
          [] Len(t) = 5 /\ t[2] = wSchemas /\ t[3] = wIds /\ t[4] # <<>>
               /\ t[5] = wVersions -> "subjectVersionsByID"
          [] OTHER -> "none"
\* a decimal integer: an optional sign, then digits
IsInteger(tok) ==
    LET ds == IF tok # <<>> /\ tok[1] \in {"+", "-"} THEN Tail(tok) ELSE tok
    IN  ds # <<>> /\ \A k \in 1..Len(ds) :
                       ds[k] \in {"0", "1", "2", "3", "4", "5", "6", "7", "8", "9"}
\* the path has an empty segment before its last one (a repeated slash)
RepeatedSlash(path) ==
    \E k \in 2..(Len(Split(path)) - 1) : Split(path)[k] = <<>>
\* the path is a registered subtree without its trailing slash
SubtreeRoot(path) == path \in {JoinPath(<<wSubjects>>), JoinPath(<<wSchemas, wIds>>)}
IsGenericNotFound(rp) == rp.status = 404 /\ rp.kind = "text"
IsRedirect(rp) == rp.status = 301 /\ rp.kind = "redirect"
IsErrorBody(rp, status, code) == rp.status = status /\ rp.kind = "error" /\ rp.code = code
RecordAt(subject, version) ==
    {i \in 1..Len(fr.schemas) :
        fr.schemas[i].Subject = subject /\ fr.schemas[i].Version = version}
RecordsOfID(id) == {i \in 1..Len(fr.schemas) : fr.schemas[i].ID = id}

\* the answer C8 describes to a lookup of (subject, version)
SubjectVersionAnswer ==
    LET t == Split(req.path)
        at == RecordAt(t[3], Atoi(t[5]).n)
    IN  IF at = {} THEN IsErrorBody(resp, 404, 40401)
        ELSE /\ resp.status = 200
             /\ resp.kind = "json"
             /\ \E i \in at :
                   resp.body.v = [subject |-> fr.schemas[i].Subject,
                                  version |-> fr.schemas[i].Version,
                                  id |-> fr.schemas[i].ID,
                                  schema |-> fr.schemas[i].Schema.Schema,
                                  schemaType |-> fr.schemas[i].Schema.Type]
\* the answer C8 describes to a lookup of an id
IDAnswer ==
    LET ids == RecordsOfID(Atoi(Split(req.path)[4]).n)
    IN  IF ids = {} THEN IsErrorBody(resp, 404, 40403)
        ELSE /\ resp.status = 200
             /\ resp.kind = "json"
             /\ \E i \in ids :
                   resp.body.v = [schema |-> fr.schemas[i].Schema.Schema,
                                  schemaType |-> fr.schemas[i].Schema.Type]
WellFormedSubjectVersion ==
    req.method = "GET" /\ Shape(req.path) = "schemaBySubjectVersion"
        /\ IsInteger(Split(req.path)[5])
WellFormedID ==
    req.method = "GET" /\ Shape(req.path) = "schemaByID" /\ IsInteger(Split(req.path)[4])

\* C8: a well-formed GET /subjects/{subject}/versions/{version} is answered 404 with
\* error_code 40401 when the store has no such record and with the record otherwise;
\* a well-formed GET /schemas/ids/{id} with 404 and 40403, or with the schema.
C8_StructuredNotFound ==
    /\ WellFormedSubjectVersion => SubjectVersionAnswer
    /\ WellFormedID => IDAnswer

\* C8 witness: on a store with a record, a lookup of an id that no record has was
\* answered 404 with error_code 40403.
C8_Witness ==
    /\ WellFormedID
    /\ IsErrorBody(resp, 404, 40403)
    /\ Len(fr.schemas) >= 1
    /\ last.op = "SchemaByID"

\* a request with the right method and path shape and a malformed version, id or body
Malformed(r) ==
    \/ r.method = "GET" /\ Shape(r.path) = "schemaBySubjectVersion"
         /\ ~IsInteger(Split(r.path)[5])
    \/ r.method = "GET" /\ Shape(r.path) \in {"schemaByID", "subjectVersionsByID"}
         /\ ~IsInteger(Split(r.path)[4])
    \/ r.method = "POST" /\ Shape(r.path) = "createSchema" /\ r.body.kind # "object"

\* C9: a malformed request is answered 500 with error_code 50001, no store
\* operation is called and the store is unchanged.
C9_MalformedInput ==
    [][Malformed(req') =>
         /\ IsErrorBody(resp', 500, 50001)
         /\ last'.op = "none"
         /\ fr' = fr]_vars

\* C9 witness: on a store with a record, a registration with an undecodable body
\* was answered 500 with error_code 50001, and the record is still the only one.
C9_Witness ==
    /\ Malformed(req)
    /\ req.method = "POST"
    /\ req.body.kind = "text"
    /\ IsErrorBody(resp, 500, 50001)
    /\ last.op = "none"
    /\ Len(fr.schemas) = 1

\* a request whose path has none of the four shapes, or whose method is not the
\* operation's
Mismatch(r) ==
    \/ Shape(r.path) = "none"
    \/ Shape(r.path) = "createSchema" /\ r.method # "POST"
    \/ Shape(r.path) \in {"schemaBySubjectVersion", "schemaByID", "subjectVersionsByID"}
         /\ r.method # "GET"

\* C10 as stated: a mismatched request is answered with the generic not-found, and
\* no store operation is called and the store is unchanged.
C10_Original ==
    [][Mismatch(req') =>
         /\ IsGenericNotFound(resp')
         /\ last'.op = "none"
         /\ fr' = fr]_vars

\* C10 amended: a mismatched request is answered with the generic not-found, or,
\* when the mux redirects it (its path has a repeated slash or is a registered
\* subtree without the trailing slash: /subjects, /schemas/ids), with a 301
\* redirect; never with a JSON error body; no store operation is called and the
\* store is unchanged.
C10_TransportMismatch ==
    [][Mismatch(req') =>
         /\ IF RepeatedSlash(req'.path) \/ SubtreeRoot(req'.path) THEN IsRedirect(resp')
            ELSE IsGenericNotFound(resp')
         /\ resp'.kind # "error"
         /\ resp'.code \notin {50001, 40401, 40403}
         /\ last'.op = "none"
         /\ fr' = fr]_vars

\* C10 witness: on a store with a record, a registration path requested with PUT
\* was answered with the generic not-found.
C10_Witness ==
    /\ Mismatch(req)
    /\ req.method = "PUT"
    /\ Shape(req.path) = "createSchema"
    /\ IsGenericNotFound(resp)
    /\ last.op = "none"
    /\ Len(fr.schemas) >= 1

\* the last request is a well-formed GET /schemas/ids/{id}/versions
WellFormedIDVersions ==
    req.method = "GET" /\ Shape(req.path) = "subjectVersionsByID"
        /\ IsInteger(Split(req.path)[4])

\* C11 as stated: a well-formed GET /schemas/ids/{id}/versions for an id that no
\* record carries is answered 200 with an empty JSON array as its body.
C11_Original ==
    (WellFormedIDVersions /\ RecordsOfID(Atoi(Split(req.path)[4]).n) = {})
        => /\ resp.status = 200
           /\ resp.kind = "json"
           /\ resp.body.t = "array"
           /\ Len(resp.body.v) = 0

\* C11, what the server answers: 200, no error body, and the JSON value null (the
\* encoding of the nil slice findAllByID returns when nothing matches).
C11_EmptyIsNull ==
    (WellFormedIDVersions /\ RecordsOfID(Atoi(Split(req.path)[4]).n) = {})
        => /\ resp.status = 200
           /\ resp.kind = "json"
           /\ resp.body = [t |-> "null"]

\* C11 witness: on a store with a record of id 1, the subject-versions of id 2 were
\* requested and answered 200.
C11_Witness ==
    /\ WellFormedIDVersions
    /\ Atoi(Split(req.path)[4]).n = 2
    /\ IDsOf(fr.schemas) = {1}
    /\ last.op = "SubjectVersionsByID"
    /\ resp.status = 200

\* the requests of the end-to-end scenario
GetSubjectVersion(subject, n) ==
    [method |-> "GET", path |-> JoinPath(<<wSubjects, subject, wVersions, n>>),
     body |-> NoBody]
GetSchemaID(n) ==
    [method |-> "GET", path |-> JoinPath(<<wSchemas, wIds, n>>), body |-> NoBody]

\* ids are 1, 2, 3, ... in the order in which distinct contents are first registered:
\* a record of content seen before carries that content's id, a record of new
\* content the number of distinct contents registered so far
C12_IDsInOrder ==
    \A i \in 1..Len(fr.schemas) :
        LET before == {j \in 1..(i - 1) :
                         fr.schemas[j].Schema.Schema = fr.schemas[i].Schema.Schema}
        IN  IF before # {}
            THEN \A j \in before : fr.schemas[i].ID = fr.schemas[j].ID
            ELSE fr.schemas[i].ID
                   = Cardinality({fr.schemas[j].Schema.Schema : j \in 1..(i - 1)}) + 1
\* after the first registration, GET /subjects/{subject}/versions/1 answers the
\* record with id 1, version 1 and the subject, GET /schemas/ids/1 the registered
\* schema, and, while one content is registered, GET /schemas/ids/2 answers 404
\* with error_code 40403
C12_Scenario ==
    Len(fr.schemas) >= 1 =>
        LET s1 == fr.schemas[1]
        IN  /\ schemaBySubjectVersion(fr, GetSubjectVersion(s1.Subject, <<"1">>)).resp
                 = json([t |-> "object",
                         v |-> [subject |-> s1.Subject, version |-> 1, id |-> 1,
                                schema |-> s1.Schema.Schema,
                                schemaType |-> s1.Schema.Type]])
            /\ s1 \in returned
            /\ schemaByID(fr, GetSchemaID(<<"1">>)).resp
                 = json([t |-> "object",
                         v |-> [schema |-> s1.Schema.Schema,
                                schemaType |-> s1.Schema.Type]])
            /\ (Cardinality({fr.schemas[j].Schema.Schema : j \in 1..Len(fr.schemas)}) = 1
                  => IsErrorBody(schemaByID(fr, GetSchemaID(<<"2">>)).resp, 404, 40403))
\* a registration is answered with the id of the record the store returned and
\* nothing else, and the first one on a new server with id 1
C12_RegistrationResponse ==
    last'.op = "CreateSchema" =>
        /\ resp' = json([t |-> "object", v |-> [id |-> last'.ss.ID]])
        /\ DOMAIN resp'.body.v = {"id"}
        /\ (fr.schemas = <<>> => resp'.body.v.id = 1)

\* C12: on a new server ids are handed out as 1, 2, 3, ... in the order in which
\* distinct contents are first registered; the first POST returns id 1, after which
\* GET /subjects/{subject}/versions/1 returns the record (id 1, version 1, the
\* subject), GET /schemas/ids/1 the registered schema and GET /schemas/ids/2 a 404
\* with error_code 40403; the registration response holds only the record's id.
C12_IDSequenceScenario ==
    /\ [](C12_IDsInOrder /\ C12_Scenario)
    /\ [][C12_RegistrationResponse]_vars

\* C12 witness: the third registration, the first of a second content, was answered
\* with id 2 after two registrations of the first content under two subjects.
C12_Witness ==
    /\ req.method = "POST"
    /\ last.op = "CreateSchema"
    /\ Len(fr.schemas) = 3
    /\ last.recordsBefore = 2
    /\ fr.schemas[1].ID = 1 /\ fr.schemas[2].ID = 1 /\ fr.schemas[3].ID = 2
    /\ resp.body.v.id = 2

(***************************************************************************)
(* Properties of concurrent calls (ConcSpec).                              *)
(***************************************************************************)
\* the goroutines whose CreateSchema call has returned
Created == {t \in Threads : pc[t] = "done" /\ call[t].op = "CreateSchema"}
\* the goroutines that call CreateSchema for a subject, returned or not
Creating(subject) ==
    {t \in Threads : call[t].op = "CreateSchema" /\ call[t].subject = subject}
DistinctContent(T) ==
    \A t1, t2 \in T : t1 # t2 => call[t1].schema.Schema # call[t2].schema.Schema

\* C5: CreateSchema calls of pairwise distinct content that ran concurrently return
\* pairwise distinct ids, and when the N calls made for one subject have all
\* returned, their versions are exactly 1..N.
C5_ConcurrencySafety ==
    /\ \A t1, t2 \in Created :
          (t1 # t2 /\ call[t1].schema.Schema # call[t2].schema.Schema)
              => call[t1].ss.ID # call[t2].ss.ID
    /\ \A subject \in Subjects :
          (Creating(subject) \subseteq Created /\ DistinctContent(Creating(subject)))
              => /\ {call[t].ss.Version : t \in Creating(subject)}
                      = 1..Cardinality(Creating(subject))
                 /\ Cardinality({call[t].ss.ID : t \in Creating(subject)})
                      = Cardinality(Creating(subject))

\* C5 witness: every goroutine has registered different content under one subject
\* on a store that was not initialised, at least one of them starting while
\* another call was running, and all have returned.
C5_Witness ==
    /\ Created = Threads
    /\ \E subject \in Subjects : Creating(subject) = Threads
    /\ DistinctContent(Threads)
    /\ \E t \in Threads : call[t].overlap
    /\ Len(fr.schemas) = NThreads

\* where a goroutine is between fr.m.Lock() and fr.m.Unlock(): in the function of
\* initOnce.Do, or in the body of its method
InInit == {"initBody", "initUnlock"}
InMethod == {"body", "version", "append", "cache", "unlock"}
InCriticalSection(t) == pc[t] \in InInit \cup InMethod
\* a lookup is about to read the store
LookupReads(t) == pc[t] = "body" /\ call[t].op \in Lookups
\* no registration is half applied: every id up to the counter, and every cached
\* id, is carried by a record
NoPartialRegister ==
    /\ \A i \in 1..fr.idSequence : i \in IDsOf(fr.schemas)
    /\ \A fp \in DOMAIN fr.fingerprintIDCache.kv :
          fr.fingerprintIDCache.kv[fp] \in IDsOf(fr.schemas)

\* C13: at most one goroutine is between Lock and Unlock of fr.m at any time, it is
\* the one fr.m records, and whenever a lookup reads the store every id from 1 to
\* the id counter and every cached id is carried by at least one record.
C13_NoPartialRegisterObserved ==
    /\ \A t1, t2 \in Threads :
          (InCriticalSection(t1) /\ InCriticalSection(t2)) => t1 = t2
    /\ \A t \in Threads : InCriticalSection(t) => fr.m = t
    /\ \A t \in Threads : LookupReads(t) => NoPartialRegister

\* C13 witness: a lookup that started while a registration was running reads the
\* store after that registration has returned its record.
C13_Witness ==
    \E t \in Threads :
        /\ LookupReads(t)
        /\ call[t].overlap
        /\ fr.idSequence = 1
        /\ Len(fr.schemas) = 1
        /\ Created # {}

\* l1 is a prefix of l2
IsPrefix(l1, l2) == Len(l1) <= Len(l2) /\ SubSeq(l2, 1, Len(l1)) = l1
\* the collections exist
Made == fr.fingerprintIDCache.made
\* this step is the one that creates the collections
CreatesCollections == \E t \in Threads : pc[t] = "initBody" /\ pc'[t] = "initUnlock"

\* no goroutine is in the body of its method before the creation has finished, and
\* once it has finished no goroutine is in the function of initOnce.Do
C14_InitBeforeUse ==
    /\ \A t \in Threads : pc[t] \in InMethod => (fr.initOnce.done /\ Made)
    /\ fr.initOnce.done => (Made /\ \A t \in Threads : pc[t] \notin InInit)
    /\ \A t1, t2 \in Threads : (pc[t1] \in InInit /\ pc[t2] \in InInit) => t1 = t2
\* the collections are created when they do not exist yet and hold nothing, and
\* what exists is kept: done stays set, the records and the cache entries stay
C14_InitOnce ==
    /\ CreatesCollections =>
          (~Made /\ ~fr.initOnce.done /\ fr.schemas = <<>> /\ fr.idSequence = 0)
    /\ fr.initOnce.done => fr'.initOnce.done
    /\ Made => fr'.fingerprintIDCache.made
    /\ IsPrefix(fr.schemas, fr'.schemas)
    /\ \A fp \in DOMAIN fr.fingerprintIDCache.kv :
          /\ fp \in DOMAIN fr'.fingerprintIDCache.kv
          /\ fr'.fingerprintIDCache.kv[fp] = fr.fingerprintIDCache.kv[fp]

\* C14: when goroutines race to be the first on a store that is not initialised,
\* the collections are created exactly once, no method body reads or writes the
\* records or the cache before the creation has finished, and the creation never
\* runs again, so no record or cache entry is ever discarded.
C14_OnceOnlyInit ==
    /\ []C14_InitBeforeUse
    /\ [][C14_InitOnce]_vars

\* C14 witness: a goroutine that read done unset and then waited for the once's
\* mutex holds it now, after the other goroutine has initialised the store and
\* registered a record.
C14_Witness ==
    \E t \in Threads :
        /\ pc[t] = "onceCheck"
        /\ fr.initOnce.done
        /\ Len(fr.schemas) = 1
        /\ DOMAIN fr.fingerprintIDCache.kv # {}

(***************************************************************************)
(* Further properties of the store under direct calls (Spec).              *)
(***************************************************************************)
\* C15: every step leaves the record list as it was or appends one record at its
\* end, and only a CreateSchema call appends (the record it returns); so the list
\* of any earlier state is a prefix of the list of every later state and no record
\* is modified, reordered or removed.
C15_AppendOnly ==
    [][/\ IsPrefix(fr.schemas, fr'.schemas)
       /\ Len(fr'.schemas) <= Len(fr.schemas) + 1
       /\ (fr'.schemas # fr.schemas =>
             /\ last'.op = "CreateSchema"
             /\ fr'.schemas = Append(fr.schemas, last'.ss))]_vars

\* C15 witness: a CreateSchema call has appended a third record to two records of
\* two subjects.
C15_Witness ==
    /\ last.op = "CreateSchema"
    /\ last.recordsBefore = 2
    /\ Len(fr.schemas) = 3
    /\ fr.schemas[3] = last.ss
    /\ fr.schemas[1].Subject # fr.schemas[2].Subject
    /\ fr.schemas[3].ID = 3

\* C16: no two records of the list have the same subject and the same id, and no
\* two have the same subject and the same version, whatever the calls and their
\* interleaving.
C16_OneRecordPerSubjectID ==
    \A i, j \in 1..Len(fr.schemas) :
        (i # j /\ fr.schemas[i].Subject = fr.schemas[j].Subject)
            => /\ fr.schemas[i].ID # fr.schemas[j].ID
               /\ fr.schemas[i].Version # fr.schemas[j].Version

\* C16 witness: all goroutines have registered the same content under the same
\* subject, one of them starting while another was running, and the store holds
\* one record, which all of them returned.
C16_Witness ==
    /\ Created = Threads
    /\ \E t \in Threads : call[t].overlap
    /\ \A t1, t2 \in Threads :
          /\ call[t1].subject = call[t2].subject
          /\ call[t1].schema = call[t2].schema
          /\ call[t1].ss = call[t2].ss
    /\ Len(fr.schemas) = 1

\* the positions of the records of l that carry id
WithID(l, id) == {i \in 1..Len(l) : l[i].ID = id}

\* C17: SchemaByID(id) returns the schema of the record appended first among the
\* records that carry the id, and the answer for an id some record carries is the
\* same after every later step, registrations of more records with that id included.
C17_FirstMatchWins ==
    [][/\ (last'.op = "SchemaByID" /\ WithID(fr.schemas, last'.id) # {}) =>
             /\ last'.ok
             /\ \E i \in WithID(fr.schemas, last'.id) :
                   /\ \A j \in WithID(fr.schemas, last'.id) : i <= j
                   /\ last'.s = fr.schemas[i].Schema
       /\ \A id \in IDsOf(fr.schemas) : SchemaByID(fr', id).r = SchemaByID(fr, id).r]_vars

\* C17 witness: two records of different subjects share an id and differ in their
\* schema (the type tag), and SchemaByID has returned the schema of the first.
C17_Witness ==
    /\ last.op = "SchemaByID"
    /\ last.ok
    /\ Len(fr.schemas) >= 2
    /\ fr.schemas[1].ID = last.id
    /\ fr.schemas[2].ID = last.id
    /\ fr.schemas[1].Subject # fr.schemas[2].Subject
    /\ fr.schemas[1].Schema # fr.schemas[2].Schema
    /\ last.s = fr.schemas[1].Schema

\* C18: SubjectVersionsByID(id) returns exactly the records that carry the id,
\* from all subjects, each once and in insertion order: the k-th record returned is
\* the k-th record of the list with that id; and the empty sequence when no record
\* carries the id.
C18_AllRecordsOfID ==
    [][last'.op = "SubjectVersionsByID" =>
         LET at == WithID(fr.schemas, last'.id)
         IN  /\ Len(last'.sss) = Cardinality(at)
             /\ \A i \in at :
                   last'.sss[Cardinality({j \in at : j <= i})] = fr.schemas[i]
             /\ (at = {} => last'.sss = <<>>)]_vars

\* C18 witness: SubjectVersionsByID has returned two records of two subjects, which
\* are the first and the third record of the list.
C18_Witness ==
    /\ last.op = "SubjectVersionsByID"
    /\ Len(fr.schemas) = 3
    /\ Len(last.sss) = 2
    /\ last.sss[1] = fr.schemas[1]
    /\ last.sss[2] = fr.schemas[3]
    /\ fr.schemas[1].Subject # fr.schemas[3].Subject
    /\ fr.schemas[2].ID # last.id

(***************************************************************************)
(* Progress of concurrent calls (FairConcSpec).                            *)
(***************************************************************************)
\* the goroutines whose call has started and not returned
Pending == {t \in Threads : pc[t] \notin {"idle", "done"}}
\* a record of the list for the call's subject and schema bytes
IsRecordOfCall(ss, c) ==
    /\ \E i \in 1..Len(fr.schemas) : fr.schemas[i] = ss
    /\ ss.Subject = c.subject
    /\ ss.Schema.Schema = c.schema.Schema
    /\ ss.ID >= 1
    /\ ss.Version >= 1

\* while calls are pending one of them can take a step; a call that has returned
\* does not hold fr.m, and a CreateSchema call has returned a record of the store
C19_NeverAllBlocked ==
    /\ Pending # {} => \E t \in Pending : ENABLED Step(t)
    /\ \A t \in Threads :
          pc[t] = "done" =>
              /\ fr.m # t
              /\ fr.initOnce.m # t
              /\ (call[t].op = "CreateSchema" => IsRecordOfCall(call[t].ss, call[t]))

\* C19: under any interleaving of concurrent calls, the race on the first
\* initialisation included, some pending call can always take a step; under fair
\* scheduling every started call releases the lock and returns, and a CreateSchema
\* call returns a record.
C19_DeadlockFreedom ==
    /\ []C19_NeverAllBlocked
    /\ \A t \in Threads : (pc[t] \notin {"idle", "done"}) ~> (pc[t] = "done")

\* C19 witness: one goroutine runs the function of initOnce.Do, holding the once's
\* mutex and fr.m, while another that also read done unset waits for the once's
\* mutex.
C19_Witness ==
    \E t, u \in Threads :
        /\ pc[t] = "initBody"
        /\ fr.m = t
        /\ fr.initOnce.m = t
        /\ pc[u] = "onceLock"
        /\ ~ENABLED Step(u)

(***************************************************************************)
(* Consistency of the cache with the records (ConcSpec).                   *)
(***************************************************************************)
\* the fingerprint cache as a set of (fingerprint, id) pairs, and the pairs the
\* records carry
CachePairs ==
    {<<fp, fr.fingerprintIDCache.kv[fp]>> : fp \in DOMAIN fr.fingerprintIDCache.kv}
RecordPairs ==
    {<<Rabin(fr.schemas[i].Schema.Schema), fr.schemas[i].ID>> : i \in 1..Len(fr.schemas)}

\* C20: whenever fr.m is free, the cache maps fingerprint f to id i exactly when a
\* record whose content has fingerprint f carries id i, distinct fingerprints are
\* cached with distinct ids, and the id counter equals the number of cache entries
\* and the number of distinct ids among the records.
C20_CacheRecordConsistency ==
    fr.m = 0 =>
        /\ CachePairs = RecordPairs
        /\ \A p, q \in CachePairs : p[2] = q[2] => p[1] = q[1]
        /\ fr.idSequence = Cardinality(DOMAIN fr.fingerprintIDCache.kv)
        /\ fr.idSequence = Cardinality(IDsOf(fr.schemas))

\* C20 witness: fr.m is free between two registrations of different content: one
\* has returned and is cached, the other, started while the first was running,
\* is about to take the lock.
C20_Witness ==
    \E t \in Threads :
        /\ fr.m = 0
        /\ pc[t] = "lock"
        /\ call[t].op = "CreateSchema"
        /\ call[t].overlap
        /\ Cardinality(CachePairs) = 1
        /\ \A i \in 1..Len(fr.schemas) :
              fr.schemas[i].Schema.Schema # call[t].schema.Schema
        /\ fr.idSequence = 1

====
